---------------------------- MODULE Spec2Model ----------------------------
(***************************************************************************)
(* A model of dcap-bonsai-cli:                                             *)
(*   - src/parser.rs: get_pck_fmspc_and_issuer, the pipeline that locates  *)
(*     the certification data of an SGX quote, decodes the PEM chain,      *)
(*     classifies the issuer of the leaf (PCK) certificate and walks the   *)
(*     DER-encoded SGX extension for the FMSPC;                            *)
(*   - src/bonsai.rs: BonsaiProver::prove, the upload / create session /   *)
(*     poll / create SNARK / poll workflow against the proving service.    *)
(*                                                                         *)
(* Bytes are the integers 0..255 and byte buffers are sequences of them.   *)
(* The DER walk of the SGX extension is modelled on the bytes.  The PEM    *)
(* and X.509 decoders are library code: their result on the certification  *)
(* data is an input of the step that calls them.                           *)
(***************************************************************************)
EXTENDS Integers, Sequences, FiniteSets, TLC

VARIABLES
    \* ---- parser.rs ----
    quote,          \* the quote: its length and the two bytes of the size field
    pc,             \* position in get_pck_fmspc_and_issuer
    outcome,        \* "running", "returned" or "panic"
    panicAt,        \* the position at which the thread panicked, or "none"
    reads,          \* the indices of the quote that were read
    certDataOffset, \* cert_data_offset (parser.rs:11)
    certDataLen,    \* cert_data.len() (parser.rs:12)
    chain,          \* what parse_pem found: one flag per PEM block
    issuerCNs,      \* the Common Name values of the leaf's issuer, in order
    pckIssuer,      \* pck_issuer (parser.rs:18)
    pckCa,          \* pck_ca (parser.rs:20)
    leafExts,       \* the extensions of the leaf: OID and value, in order
    sgxExtensionsBytes, \* sgx_extensions_bytes (parser.rs:59)
    extEntries,     \* the nested entries the SGX extension was built from
    i,              \* the remaining buffer of the walk (parser.rs:69)
    fmspc,          \* the [u8; 6] result of the walk (parser.rs:67)
    matched,        \* whether the walk left its loop through `break`
    iters,          \* completed iterations of the walk
    ret,            \* the returned triple (fmspc, pck_ca, pck_issuer)
    \* ---- bonsai.rs ----
    bpc,            \* position in BonsaiProver::prove
    elf,            \* whether an ELF image was passed (Some / None)
    imageId,        \* image_id_hex
    remote,         \* the service's status of the two sessions
    res,            \* the last response of each session's status()
    calls,          \* the calls made to the service, in order; the polls
                    \* of one loop are listed once
    tick,           \* flips at every call to the service
    bresult         \* "running", "ok", "err" or "panic"

pvars == <<quote, pc, outcome, panicAt, reads, certDataOffset, certDataLen,
           chain, issuerCNs, pckIssuer, pckCa, leafExts, sgxExtensionsBytes,
           extEntries, i,
           fmspc, matched, iters, ret>>
bvars == <<bpc, elf, imageId, remote, res, calls, tick, bresult>>
vars  == <<pvars, bvars>>

-----------------------------------------------------------------------------
(* Bounds of the model. *)

\* nested entries in an SGX extension
MaxEntries == 2
\* PEM blocks in the certification data
MaxCerts == 2

-----------------------------------------------------------------------------
(* Program constants. *)

QE_AUTH_DATA_SIZE_OFFSET == 1012

\* usize is at least 32 bits wide on every target of the crate
USIZE_BITS == 32

\* ASN.1 tags decoded by Sequence / Oid / OctetString ::from_der
TAG_SEQUENCE == 48
TAG_OID == 6
TAG_OCTETSTRING == 4

\* oid!(1.2.840.113741.1.13.1), the SGX extension
SGX_EXTENSION_OID == <<1, 2, 840, 113741, 1, 13, 1>>
\* "1.2.840.113741.1.13.1.4", the FMSPC entry; an id string is modelled as
\* the sequence of the arcs it prints, joined by dots
FMSPC_OID == <<1, 2, 840, 113741, 1, 13, 1, 4>>

PLATFORM_CN == "Intel SGX PCK Platform CA"
PROCESSOR_CN == "Intel SGX PCK Processor CA"

Byte == 0..255

-----------------------------------------------------------------------------
(* Integer helpers. *)

\* x reduced to the width of usize, computed on 16-bit limbs
WrapUsize(x) ==
    LET lo == x % 65536
        hi == (x \div 65536) % (2 ^ (USIZE_BITS - 16))
    IN  hi * 65536 + lo

\* u16::from_le_bytes([b0, b1]) read big-endian instead
U16FromBeBytes(b0, b1) == (b0 * 256 + b1) % 65536

\* u16::from_le_bytes([b0, b1])
U16FromLeBytes(b0, b1) == (b0 + 256 * b1) % 65536

\* QE_AUTH_DATA_SIZE_OFFSET + 2 + auth_data_size as usize + 2 + 4
CertDataOffset(b0, b1) ==
    WrapUsize(WrapUsize(WrapUsize(WrapUsize(QE_AUTH_DATA_SIZE_OFFSET + 2)
        + U16FromLeBytes(b0, b1)) + 2) + 4)

-----------------------------------------------------------------------------
(* DER, as asn1_rs decodes it (Sequence, Oid, OctetString ::from_der). *)

RECURSIVE Base128(_)
\* the base-128 digits of n, most significant first
Base128(n) == IF n < 128 THEN <<n>> ELSE Base128(n \div 128) \o <<n % 128>>

\* a sub-identifier: every digit but the last carries the continuation bit
EncArc(n) ==
    LET d == Base128(n)
    IN  [k \in 1..Len(d) |-> IF k < Len(d) THEN d[k] + 128 ELSE d[k]]

RECURSIVE EncArcs(_)
EncArcs(arcs) ==
    IF arcs = <<>> THEN <<>> ELSE EncArc(Head(arcs)) \o EncArcs(Tail(arcs))

\* the content octets of an OBJECT IDENTIFIER with at least two arcs
EncOidContent(arcs) ==
    <<arcs[1] * 40 + arcs[2]>> \o EncArcs(SubSeq(arcs, 3, Len(arcs)))

\* the length octets of a definite length, in the shortest form
EncLen(n) ==
    IF n < 128 THEN <<n>>
    ELSE IF n < 256 THEN <<129, n>>
    ELSE <<130, n \div 256, n % 256>>

\* tag, length, content
EncTlv(tag, content) == <<tag>> \o EncLen(Len(content)) \o content

ParseFail == [ok |-> FALSE, hdr |-> 0, content |-> <<>>, rest |-> <<>>]

\* the content and the remainder once the header is known
TakeContent(buf, hdr, n) ==
    IF Len(buf) < hdr + n THEN ParseFail
    ELSE [ok |-> TRUE, hdr |-> hdr,
          content |-> SubSeq(buf, hdr + 1, hdr + n),
          rest |-> SubSeq(buf, hdr + n + 1, Len(buf))]

\* T::from_der(buf) for a type of the given tag: the header (one tag octet,
\* a definite length in short form or in long form of one or two octets),
\* then as many content octets as the length claims.  A buffer that is too
\* short, another tag or an indefinite length is an Err.
ParseTlv(buf, tag) ==
    IF Len(buf) < 2 THEN ParseFail
    ELSE IF buf[1] # tag THEN ParseFail
    ELSE IF buf[2] < 128 THEN TakeContent(buf, 2, buf[2])
    ELSE IF buf[2] = 129 THEN
        IF Len(buf) < 3 THEN ParseFail ELSE TakeContent(buf, 3, buf[3])
    ELSE IF buf[2] = 130 THEN
        IF Len(buf) < 4 THEN ParseFail
        ELSE TakeContent(buf, 4, buf[3] * 256 + buf[4])
    ELSE ParseFail

\* an arc that large prints to no arc of the identifiers compared here;
\* larger values are kept at it
Saturate(x) == IF x > 8388608 THEN 8388608 ELSE x

RECURSIVE DecArcs(_, _)
\* the sub-identifiers of content octets, base 128 with a continuation bit;
\* acc is the value read so far
DecArcs(bytes, acc) ==
    IF bytes = <<>> THEN <<>>
    ELSE IF Head(bytes) >= 128
         THEN DecArcs(Tail(bytes), Saturate(acc * 128 + (Head(bytes) - 128)))
         ELSE <<Saturate(acc * 128 + Head(bytes))>> \o DecArcs(Tail(bytes), 0)

\* Oid::to_id_string: the arcs of the identifier
OidToIdString(content) ==
    IF content = <<>> THEN <<>>
    ELSE <<content[1] \div 40, content[1] % 40>> \o DecArcs(Tail(content), 0)

HexChars == <<"0", "1", "2", "3", "4", "5", "6", "7",
              "8", "9", "a", "b", "c", "d", "e", "f">>

RECURSIVE HexEncode(_)
\* hex::encode: two lowercase digits per byte; a string is modelled as the
\* sequence of its characters
HexEncode(bytes) ==
    IF bytes = <<>> THEN <<>>
    ELSE <<HexChars[(Head(bytes) \div 16) + 1], HexChars[(Head(bytes) % 16) + 1]>>
         \o HexEncode(Tail(bytes))

-----------------------------------------------------------------------------
(* The inputs of the pipeline. *)

\* the two bytes of the QE authentication data size field
SizeFieldSamples == {<<0, 0>>, <<1, 0>>, <<0, 1>>, <<255, 255>>}

\* quote lengths: too short for the size field, and one byte short of, at
\* and one byte past the start of the certification data
QuoteLens(b) ==
    {0, QE_AUTH_DATA_SIZE_OFFSET, QE_AUTH_DATA_SIZE_OFFSET + 1,
     QE_AUTH_DATA_SIZE_OFFSET + 2}
    \cup {QE_AUTH_DATA_SIZE_OFFSET + 2 + b[1] + 256 * b[2] + 6 + t : t \in {-1, 0, 1}}

Quotes ==
    UNION {{[len |-> n, b0 |-> b[1], b1 |-> b[2]] : n \in QuoteLens(b)} :
            b \in SizeFieldSamples}

RECURSIVE SeqsUpTo(_, _)
\* the sequences over S of length at most n
SeqsUpTo(S, n) ==
    IF n = 0 THEN {<<>>}
    ELSE LET shorter == SeqsUpTo(S, n - 1)
         IN  shorter \cup {Append(q, x) : <<q, x>> \in shorter \X S}

\* what Pem::iter_from_buffer(..).collect() gives on cert data of n bytes:
\* an Err, or the PEM blocks, each flagged by whether parse_x509 accepts it
PemResults(n) ==
    IF n = 0 THEN {[err |-> FALSE, blocks |-> <<>>]}
    ELSE {[err |-> TRUE, blocks |-> <<>>]}
         \cup {[err |-> FALSE, blocks |-> bs] : bs \in SeqsUpTo(BOOLEAN, MaxCerts)}

\* a Common Name attribute whose value as_str() rejects
NOT_A_STRING == "<not a string>"

\* the Common Name values of an issuer, in order
IssuerSamples ==
    {<<>>, <<PLATFORM_CN>>, <<PROCESSOR_CN>>, <<"Intel SGX Root CA">>,
     <<"intel sgx pck platform ca">>, <<NOT_A_STRING>>,
     <<PLATFORM_CN, PROCESSOR_CN>>, <<"Intel SGX Root CA", PLATFORM_CN>>}

OTHER_OID == <<2, 5, 29, 15>>
TCB_OID == <<1, 2, 840, 113741, 1, 13, 1, 2>>
PCEID_OID == <<1, 2, 840, 113741, 1, 13, 1, 3>>

\* SEQUENCE { OID, body }
EncEntry(oid, body) ==
    EncTlv(TAG_SEQUENCE, EncTlv(TAG_OID, EncOidContent(oid)) \o body)

\* a nested entry: its OID, the content of its OCTET STRING value when it
\* is SEQUENCE { OID, OCTET STRING } and nothing else (plain), and its bytes
WellFormed(oid, val) ==
    [oid |-> oid, plain |-> TRUE, val |-> val,
     bytes |-> EncEntry(oid, EncTlv(TAG_OCTETSTRING, val))]

Odd(oid, body) ==
    [oid |-> oid, plain |-> FALSE, val |-> <<>>, bytes |-> EncEntry(oid, body)]

Raw(bytes) == [oid |-> <<>>, plain |-> FALSE, val |-> <<>>, bytes |-> bytes]

EntrySamples ==
    { WellFormed(FMSPC_OID, <<170, 187, 204, 221, 238, 255>>),
      WellFormed(FMSPC_OID, <<0, 0, 0, 0, 0, 1>>),
      \* an FMSPC of 5 bytes
      WellFormed(FMSPC_OID, <<170, 187, 204, 221, 238>>),
      \* an FMSPC followed by a NULL inside its SEQUENCE
      Odd(FMSPC_OID, EncTlv(TAG_OCTETSTRING, <<1, 2, 3, 4, 5, 6>>) \o <<5, 0>>),
      \* an FMSPC whose value is an INTEGER
      Odd(FMSPC_OID, <<2, 1, 7>>),
      WellFormed(PCEID_OID, <<0, 0>>),
      \* an entry whose value is itself a SEQUENCE holding an FMSPC entry
      Odd(TCB_OID, EncTlv(TAG_SEQUENCE,
            EncEntry(FMSPC_OID, EncTlv(TAG_OCTETSTRING, <<9, 9, 9, 9, 9, 9>>)))),
      \* a value of 128 bytes: lengths in long form
      WellFormed(PCEID_OID, [k \in 1..128 |-> 0]),
      \* a SEQUENCE that does not start with an OID
      Raw(<<48, 2, 5, 0>>),
      \* a SEQUENCE that claims more bytes than follow
      Raw(<<48, 127, 6>>) }

RECURSIVE Concat(_)
Concat(es) == IF es = <<>> THEN <<>> ELSE Head(es).bytes \o Concat(Tail(es))

\* values of the SGX extension, each with the entries it was built from:
\* a SEQUENCE of the entries, the same followed by a stray byte, and two
\* values that are no SEQUENCE
SgxExtensionSamples ==
    {[entries |-> es, value |-> EncTlv(TAG_SEQUENCE, Concat(es)) \o t] :
        <<es, t>> \in SeqsUpTo(EntrySamples, MaxEntries) \X {<<>>, <<0>>}}
    \cup {[entries |-> <<>>, value |-> v] : v \in {<<>>, <<4, 0>>}}

OtherExt == [oid |-> OTHER_OID, value |-> <<3, 2, 1, 6>>]
SgxExt(v) == [oid |-> SGX_EXTENSION_OID, value |-> v]

\* the extensions of the leaf, with the entries its SGX extension was built
\* from: no SGX extension, one, or two
LeafExtSamples ==
    {[entries |-> <<>>, exts |-> x] : x \in {<<>>, <<OtherExt>>}}
    \cup {[entries |-> s.entries, exts |-> <<OtherExt, SgxExt(s.value)>>] :
            s \in SgxExtensionSamples}
    \cup {[entries |-> <<>>,
           exts |-> <<SgxExt(EncTlv(TAG_SEQUENCE, <<>>)),
                      SgxExt(EncTlv(TAG_SEQUENCE, <<>>))>>]}

\* no status() response was read yet
NoResponse == [status |-> "none", payload |-> FALSE]

-----------------------------------------------------------------------------
(* parser.rs: get_pck_fmspc_and_issuer, one action per step. *)

ParserInit ==
    /\ quote \in Quotes
    /\ pc = "start"
    /\ outcome = "running"
    /\ panicAt = "none"
    /\ reads = {}
    /\ certDataOffset = -1
    /\ certDataLen = -1
    /\ chain = <<>>
    /\ issuerCNs = <<>>
    /\ pckIssuer = "none"
    /\ pckCa = "none"
    /\ leafExts = <<>>
    /\ sgxExtensionsBytes = <<>>
    /\ extEntries = <<>>
    /\ i = <<>>
    /\ fmspc = <<>>
    /\ matched = FALSE
    /\ iters = 0
    /\ ret = <<>>
    /\ bpc = "idle"
    /\ elf = FALSE
    /\ imageId = "none"
    /\ remote = [stark |-> "NONE", snark |-> "NONE"]
    /\ res = [stark |-> NoResponse, snark |-> NoResponse]
    /\ calls = <<>>
    /\ tick = 0
    /\ bresult = "running"

\* an unwrap, expect, assert, panic! or index out of bounds: the thread
\* unwinds and nothing is returned
Panic ==
    /\ pc' = "panicked"
    /\ outcome' = "panic"
    /\ panicAt' = pc

Goto(next) ==
    /\ pc' = next
    /\ UNCHANGED <<outcome, panicAt>>

\* get_cert_data_offset: quote[1012] and quote[1013] are bounds-checked reads
GetCertDataOffset ==
    /\ pc = "start"
    /\ IF quote.len <= QE_AUTH_DATA_SIZE_OFFSET
       THEN Panic /\ UNCHANGED <<reads, certDataOffset>>
       ELSE IF quote.len <= QE_AUTH_DATA_SIZE_OFFSET + 1
       THEN /\ Panic
            /\ reads' = reads \cup {QE_AUTH_DATA_SIZE_OFFSET}
            /\ UNCHANGED certDataOffset
       ELSE /\ reads' = reads \cup {QE_AUTH_DATA_SIZE_OFFSET,
                                    QE_AUTH_DATA_SIZE_OFFSET + 1}
            /\ certDataOffset' = CertDataOffset(quote.b0, quote.b1)
            /\ Goto("slice")
    /\ UNCHANGED <<bvars, quote, certDataLen, chain, issuerCNs, pckIssuer, pckCa,
                   leafExts, sgxExtensionsBytes, extEntries, i, fmspc,
                   matched, iters, ret>>

\* (quote[cert_data_offset..]).to_vec(): a start past the end panics
SliceCertData ==
    /\ pc = "slice"
    /\ IF certDataOffset > quote.len
       THEN Panic /\ UNCHANGED <<reads, certDataLen>>
       ELSE /\ certDataLen' = quote.len - certDataOffset
            /\ reads' = reads \cup (certDataOffset .. (quote.len - 1))
            /\ Goto("parse_pem")
    /\ UNCHANGED <<bvars, quote, certDataOffset, chain, issuerCNs, pckIssuer, pckCa,
                   leafExts, sgxExtensionsBytes, extEntries, i, fmspc,
                   matched, iters, ret>>

\* parse_pem(&cert_data).expect(..)
ParsePem ==
    /\ pc = "parse_pem"
    /\ \E r \in PemResults(certDataLen) :
          IF r.err
          THEN Panic /\ UNCHANGED chain
          ELSE chain' = r.blocks /\ Goto("parse_certchain")
    /\ UNCHANGED <<bvars, quote, reads, certDataOffset, certDataLen, issuerCNs,
                   pckIssuer, pckCa, leafExts, sgxExtensionsBytes, extEntries,
                   i, fmspc, matched, iters, ret>>

\* parse_certchain: pem.parse_x509().unwrap() on every block
ParseCertchain ==
    /\ pc = "parse_certchain"
    /\ IF \E k \in 1..Len(chain) : ~chain[k]
       THEN Panic
       ELSE Goto("leaf")
    /\ UNCHANGED <<bvars, quote, reads, certDataOffset, certDataLen, chain,
                   issuerCNs, pckIssuer, pckCa, leafExts, sgxExtensionsBytes,
                   extEntries, i, fmspc, matched, iters, ret>>

\* let pck = &cert_chain[0]
IndexLeaf ==
    /\ pc = "leaf"
    /\ IF Len(chain) = 0
       THEN Panic
       ELSE Goto("issuer")
    /\ UNCHANGED <<bvars, quote, reads, certDataOffset, certDataLen, chain,
                   issuerCNs, pckIssuer, pckCa, leafExts, sgxExtensionsBytes,
                   extEntries, i, fmspc, matched, iters, ret>>

\* get_x509_issuer_cn: iter_common_name().next().unwrap(), as_str().unwrap()
GetX509IssuerCn ==
    /\ pc = "issuer"
    /\ \E cns \in IssuerSamples :
          /\ issuerCNs' = cns
          /\ IF cns = <<>> \/ Head(cns) = NOT_A_STRING
             THEN Panic /\ UNCHANGED pckIssuer
             ELSE pckIssuer' = Head(cns) /\ Goto("classify")
    /\ UNCHANGED <<bvars, quote, reads, certDataOffset, certDataLen, chain, pckCa,
                   leafExts, sgxExtensionsBytes, extEntries, i, fmspc,
                   matched, iters, ret>>

\* the match of pck_issuer.as_str()
IssuerCa(cn) ==
    IF cn = PLATFORM_CN THEN "PLATFORM"
    ELSE IF cn = PROCESSOR_CN THEN "PROCESSOR"
    ELSE "panic"

ClassifyIssuer ==
    /\ pc = "classify"
    /\ IF IssuerCa(pckIssuer) = "panic"
       THEN Panic /\ UNCHANGED pckCa
       ELSE pckCa' = IssuerCa(pckIssuer) /\ Goto("extension")
    /\ UNCHANGED <<bvars, quote, reads, certDataOffset, certDataLen, chain,
                   issuerCNs, pckIssuer, leafExts, sgxExtensionsBytes,
                   extEntries, i, fmspc, matched, iters, ret>>

\* the extensions of exts whose OID is oid, in order
WithOid(exts, oid) == SelectSeq(exts, LAMBDA e : e.oid = oid)

\* cert.get_extension_unique(&oid).unwrap().unwrap().value: Err on a
\* duplicate, None when absent
GetExtensionUnique ==
    /\ pc = "extension"
    /\ \E x \in LeafExtSamples :
          /\ leafExts' = x.exts
          /\ extEntries' = x.entries
          /\ LET found == WithOid(x.exts, SGX_EXTENSION_OID)
             IN  IF Len(found) # 1
                 THEN Panic /\ UNCHANGED sgxExtensionsBytes
                 ELSE sgxExtensionsBytes' = found[1].value /\ Goto("outer")
    /\ UNCHANGED <<bvars, quote, reads, certDataOffset, certDataLen, chain,
                   issuerCNs, pckIssuer, pckCa, i, fmspc, matched, iters, ret>>

\* Sequence::from_der(sgx_extensions_bytes).unwrap(); fmspc = [0; 6];
\* i = the content of the SEQUENCE (what follows it is dropped)
ParseSgxExtensions ==
    /\ pc = "outer"
    /\ LET s == ParseTlv(sgxExtensionsBytes, TAG_SEQUENCE)
       IN  IF ~s.ok
           THEN Panic /\ UNCHANGED <<i, fmspc>>
           ELSE /\ i' = s.content
                /\ fmspc' = <<0, 0, 0, 0, 0, 0>>
                /\ Goto("walk")
    /\ UNCHANGED <<bvars, quote, reads, certDataOffset, certDataLen, chain,
                   issuerCNs, pckIssuer, pckCa, leafExts, sgxExtensionsBytes,
                   extEntries, matched, iters, ret>>

\* a matching arm that goes on with the loop
MatchArmContinue == "continue"

\* how the arm of the FMSPC id string leaves the iteration
MatchArm == "break"

\* i = j left out
AdvanceNot(buf, rest) == buf

\* i = j
Advance(buf, rest) == rest

\* one iteration of the while loop on the buffer buf with the result cur:
\* what it does ("panic", "break" or "continue"), and i and fmspc after it
WalkIter(buf, cur) ==
    LET s == ParseTlv(buf, TAG_SEQUENCE)
    IN  IF ~s.ok THEN [status |-> "panic", i |-> buf, fmspc |-> cur]
        ELSE
        LET j == Advance(buf, s.rest)
            o == ParseTlv(s.content, TAG_OID)
        IN  IF ~o.ok THEN [status |-> "panic", i |-> j, fmspc |-> cur]
            ELSE IF OidToIdString(o.content) # FMSPC_OID
            THEN [status |-> "continue", i |-> j, fmspc |-> cur]
            ELSE
            LET v == ParseTlv(o.rest, TAG_OCTETSTRING)
            IN  IF \/ ~v.ok                  \* OctetString::from_der(j).unwrap()
                   \/ Len(v.rest) # 0        \* assert_eq!(k.len(), 0)
                   \/ Len(v.content) # 6     \* copy_from_slice
                THEN [status |-> "panic", i |-> j, fmspc |-> cur]
                ELSE [status |-> MatchArm, i |-> j, fmspc |-> v.content]

\* while i.len() > 0 { .. }: the test of the loop and one iteration
WalkStep ==
    /\ pc = "walk"
    /\ IF Len(i) = 0
       THEN Goto("encode") /\ UNCHANGED <<i, fmspc, matched, iters>>
       ELSE LET w == WalkIter(i, fmspc)
            IN  /\ i' = w.i
                /\ fmspc' = w.fmspc
                /\ IF w.status = "panic"
                   THEN Panic /\ UNCHANGED <<matched, iters>>
                   ELSE /\ iters' = iters + 1
                        /\ matched' = (w.status = "break")
                        /\ Goto(IF w.status = "break" THEN "encode" ELSE "walk")
    /\ UNCHANGED <<bvars, quote, reads, certDataOffset, certDataLen, chain,
                   issuerCNs, pckIssuer, pckCa, leafExts, sgxExtensionsBytes,
                   extEntries, ret>>

\* hex::encode(fmspc_slice); (fmspc, pck_ca, pck_issuer)
Return ==
    /\ pc = "encode"
    /\ ret' = <<HexEncode(fmspc), pckCa, pckIssuer>>
    /\ pc' = "done"
    /\ outcome' = "returned"
    /\ UNCHANGED <<bvars, panicAt, quote, reads, certDataOffset, certDataLen, chain,
                   issuerCNs, pckIssuer, pckCa, leafExts, sgxExtensionsBytes,
                   extEntries, i, fmspc, matched, iters>>

ParserNext ==
    \/ GetCertDataOffset
    \/ SliceCertData
    \/ ParsePem
    \/ ParseCertchain
    \/ IndexLeaf
    \/ GetX509IssuerCn
    \/ ClassifyIssuer
    \/ GetExtensionUnique
    \/ ParseSgxExtensions
    \/ WalkStep
    \/ Return

\* get_pck_fmspc_and_issuer on every quote
ParserSpec == ParserInit /\ [][ParserNext]_vars

OffsetInit ==
    /\ quote \in {[len |-> QE_AUTH_DATA_SIZE_OFFSET + 2
                            + n * (b0 + 256 * b1 + 6),
                   b0 |-> b0, b1 |-> b1] :
                    <<b0, b1, n>> \in Byte \X Byte \X {0, 1}}
    /\ pc = "start"
    /\ outcome = "running"
    /\ panicAt = "none"
    /\ reads = {}
    /\ certDataOffset = -1
    /\ certDataLen = -1
    /\ chain = <<>>
    /\ issuerCNs = <<>>
    /\ pckIssuer = "none"
    /\ pckCa = "none"
    /\ leafExts = <<>>
    /\ sgxExtensionsBytes = <<>>
    /\ extEntries = <<>>
    /\ i = <<>>
    /\ fmspc = <<>>
    /\ matched = FALSE
    /\ iters = 0
    /\ ret = <<>>
    /\ bpc = "idle"
    /\ elf = FALSE
    /\ imageId = "none"
    /\ remote = [stark |-> "NONE", snark |-> "NONE"]
    /\ res = [stark |-> NoResponse, snark |-> NoResponse]
    /\ calls = <<>>
    /\ tick = 0
    /\ bresult = "running"

\* the state in which extract_fmspc_from_extension is called, for a quote
\* whose size field is 0 and whose certification data decoded to a chain
\* with a leaf of a known issuer
WalkInit ==
    /\ quote = [len |-> QE_AUTH_DATA_SIZE_OFFSET + 2 + 6 + 1, b0 |-> 0, b1 |-> 0]
    /\ pc = "extension"
    /\ outcome = "running"
    /\ panicAt = "none"
    /\ reads = {QE_AUTH_DATA_SIZE_OFFSET, QE_AUTH_DATA_SIZE_OFFSET + 1,
                QE_AUTH_DATA_SIZE_OFFSET + 2 + 6}
    /\ certDataOffset = QE_AUTH_DATA_SIZE_OFFSET + 2 + 6
    /\ certDataLen = 1
    /\ chain = <<TRUE>>
    /\ issuerCNs \in {<<PLATFORM_CN>>, <<PROCESSOR_CN>>}
    /\ pckIssuer = Head(issuerCNs)
    /\ pckCa = IssuerCa(pckIssuer)
    /\ leafExts = <<>>
    /\ sgxExtensionsBytes = <<>>
    /\ extEntries = <<>>
    /\ i = <<>>
    /\ fmspc = <<>>
    /\ matched = FALSE
    /\ iters = 0
    /\ ret = <<>>
    /\ bpc = "idle"
    /\ elf = FALSE
    /\ imageId = "none"
    /\ remote = [stark |-> "NONE", snark |-> "NONE"]
    /\ res = [stark |-> NoResponse, snark |-> NoResponse]
    /\ calls = <<>>
    /\ tick = 0
    /\ bresult = "running"

WalkNext ==
    \/ GetExtensionUnique
    \/ ParseSgxExtensions
    \/ WalkStep
    \/ Return

\* extract_fmspc_from_extension on every sample leaf, run to its end: the
\* function is one synchronous call
WalkFairSpec == WalkInit /\ [][WalkNext]_vars /\ WF_vars(WalkNext)

OffsetNext ==
    \/ GetCertDataOffset
    \/ SliceCertData

\* get_cert_data_offset and the slice at its result, on every size field
OffsetSpec == OffsetInit /\ [][OffsetNext]_vars

-----------------------------------------------------------------------------
(* bonsai.rs: BonsaiProver::prove, one action per step, and the service. *)

\* the statuses with which the service ends a session
TerminalStatuses == {"SUCCEEDED", "FAILED", "TIMED_OUT", "ABORTED"}

BonsaiInit ==
    /\ quote = [len |-> 0, b0 |-> 0, b1 |-> 0]
    /\ pc = "idle"
    /\ outcome = "running"
    /\ panicAt = "none"
    /\ reads = {}
    /\ certDataOffset = -1
    /\ certDataLen = -1
    /\ chain = <<>>
    /\ issuerCNs = <<>>
    /\ pckIssuer = "none"
    /\ pckCa = "none"
    /\ leafExts = <<>>
    /\ sgxExtensionsBytes = <<>>
    /\ extEntries = <<>>
    /\ i = <<>>
    /\ fmspc = <<>>
    /\ matched = FALSE
    /\ iters = 0
    /\ ret = <<>>
    /\ bpc = "client"
    /\ elf \in BOOLEAN
    /\ imageId = "none"
    /\ remote = [stark |-> "NONE", snark |-> "NONE"]
    /\ res = [stark |-> NoResponse, snark |-> NoResponse]
    /\ calls = <<>>
    /\ tick = 0
    /\ bresult = "running"

\* a call to the service: recorded, the polls of one loop once
Call(name) ==
    /\ calls' = IF calls # <<>> /\ calls[Len(calls)] = name
                THEN calls ELSE Append(calls, name)
    /\ tick' = 1 - tick

\* `?` on an Err: prove returns the error
ReturnErr ==
    /\ bpc' = "returned"
    /\ bresult' = "err"

\* panic!, expect
Abort ==
    /\ bpc' = "aborted"
    /\ bresult' = "panic"

Step(next) ==
    /\ bpc' = next
    /\ UNCHANGED bresult

\* bonsai_sdk::Client::from_env(&risc_zero_version)?
ClientFromEnv ==
    /\ bpc = "client"
    /\ \E ok \in BOOLEAN : IF ok THEN Step("image") ELSE ReturnErr
    /\ UNCHANGED <<pvars, elf, imageId, remote, res, calls, tick>>

\* match elf: compute_image_id(elf)? and upload_img(..)?, or the default id
SelectImage ==
    /\ bpc = "image"
    /\ IF elf
       THEN \E computed \in BOOLEAN, uploaded \in BOOLEAN :
              IF ~computed
              THEN ReturnErr /\ UNCHANGED <<imageId, calls, tick>>
              ELSE /\ imageId' = "computed"
                   /\ Call("upload_img")
                   /\ IF uploaded THEN Step("input") ELSE ReturnErr
       ELSE /\ imageId' = "DEFAULT_IMAGE_ID_HEX"
            /\ Step("input")
            /\ UNCHANGED <<calls, tick>>
    /\ UNCHANGED <<pvars, elf, remote, res>>

\* client.upload_input(input.to_vec())?
UploadInput ==
    /\ bpc = "input"
    /\ Call("upload_input")
    /\ \E ok \in BOOLEAN : IF ok THEN Step("session") ELSE ReturnErr
    /\ UNCHANGED <<pvars, elf, imageId, remote, res>>

\* client.create_session(image_id_hex, input_id, vec![])?
CreateSession ==
    /\ bpc = "session"
    /\ Call("create_session")
    /\ \E ok \in BOOLEAN :
          IF ok
          THEN remote' = [remote EXCEPT !.stark = "RUNNING"] /\ Step("stark_loop")
          ELSE ReturnErr /\ UNCHANGED remote
    /\ UNCHANGED <<pvars, elf, imageId, res>>

\* an arm that takes every status but RUNNING for success
StatusArmLenient(status) ==
    IF status = "RUNNING" THEN "continue" ELSE "break"

\* an arm that sleeps and polls again on SUCCEEDED too
StatusArmStuck(status) ==
    IF status \in {"RUNNING", "SUCCEEDED"} THEN "continue" ELSE "panic"

\* the arms of both poll loops: RUNNING sleeps and continues, SUCCEEDED
\* leaves the loop, every other status panics
StatusArm(status) ==
    IF status = "RUNNING" THEN "continue"
    ELSE IF status = "SUCCEEDED" THEN "break"
    ELSE "panic"

\* one iteration of the first loop: session.status(&client)?, then the arms;
\* on SUCCEEDED, res.receipt_url.context(..)?
PollSession ==
    /\ bpc = "stark_loop"
    /\ Call("session.status")
    /\ \E ok \in BOOLEAN, url \in BOOLEAN :
          IF ~ok
          THEN ReturnErr /\ UNCHANGED res
          ELSE /\ res' = [res EXCEPT !.stark =
                            [status |-> remote.stark, payload |-> url]]
               /\ CASE StatusArm(remote.stark) = "continue" -> Step("stark_loop")
                    [] StatusArm(remote.stark) = "break" ->
                          IF url THEN Step("snark") ELSE ReturnErr
                    [] OTHER -> Abort
    /\ UNCHANGED <<pvars, elf, imageId, remote>>

\* client.create_snark(session.uuid)?
CreateSnark ==
    /\ bpc = "snark"
    /\ Call("create_snark")
    /\ \E ok \in BOOLEAN :
          IF ok
          THEN remote' = [remote EXCEPT !.snark = "RUNNING"] /\ Step("snark_loop")
          ELSE ReturnErr /\ UNCHANGED remote
    /\ UNCHANGED <<pvars, elf, imageId, res>>

\* one iteration of the second loop: snark_session.status(&client)?, then
\* the arms; on SUCCEEDED, res.output.context(..)?
PollSnark ==
    /\ bpc = "snark_loop"
    /\ Call("snark_session.status")
    /\ \E ok \in BOOLEAN, output \in BOOLEAN :
          IF ~ok
          THEN ReturnErr /\ UNCHANGED res
          ELSE /\ res' = [res EXCEPT !.snark =
                            [status |-> remote.snark, payload |-> output]]
               /\ CASE StatusArm(remote.snark) = "continue" -> Step("snark_loop")
                    [] StatusArm(remote.snark) = "break" ->
                          IF output THEN Step("encode") ELSE ReturnErr
                    [] OTHER -> Abort
    /\ UNCHANGED <<pvars, elf, imageId, remote>>

\* Seal::abi_encode(snark).expect(..), groth16::encode(..)?, the digest's
\* try_into()?, Ok((journal, post_state_digest, seal))
EncodeSeal ==
    /\ bpc = "encode"
    /\ \E abi \in BOOLEAN, groth \in BOOLEAN, digest \in BOOLEAN :
          IF ~abi THEN Abort
          ELSE IF ~groth \/ ~digest THEN ReturnErr
          ELSE bpc' = "returned" /\ bresult' = "ok"
    /\ UNCHANGED <<pvars, elf, imageId, remote, res, calls, tick>>

\* the service ends the proving session
ServiceEndsSession ==
    /\ remote.stark = "RUNNING"
    /\ \E st \in TerminalStatuses : remote' = [remote EXCEPT !.stark = st]
    /\ UNCHANGED <<pvars, bpc, elf, imageId, res, calls, tick, bresult>>

\* the service ends the SNARK session
ServiceEndsSnark ==
    /\ remote.snark = "RUNNING"
    /\ \E st \in TerminalStatuses : remote' = [remote EXCEPT !.snark = st]
    /\ UNCHANGED <<pvars, bpc, elf, imageId, res, calls, tick, bresult>>

\* the steps of prove
ProveNext ==
    \/ ClientFromEnv
    \/ SelectImage
    \/ UploadInput
    \/ CreateSession
    \/ PollSession
    \/ CreateSnark
    \/ PollSnark
    \/ EncodeSeal

BonsaiNext ==
    \/ ProveNext
    \/ ServiceEndsSession
    \/ ServiceEndsSnark

\* prove against a service that may or may not end its sessions
BonsaiSpec == BonsaiInit /\ [][BonsaiNext]_vars

\* the same, with the thread of prove running to its end
BonsaiFairSpec == BonsaiSpec /\ WF_vars(ProveNext)

-----------------------------------------------------------------------------
(* The claims. *)

\* the error kinds of the specification's taxonomy
ErrorKinds ==
    {"MalformedQuote", "CertificateDecodeError", "EmptyChain", "UnknownIssuer",
     "MissingIssuerCN", "ExtensionNotFound", "DuplicateExtension",
     "FmspcNotFound", "InvalidFmspcLength"}

\* get_pck_fmspc_and_issuer has ended, by returning or by unwinding
Ended == pc \in {"done", "panicked"}

\* the size field as the quote's format defines it
AuthDataSize == quote.b0 + 256 * quote.b1

\* C1: a quote shorter than 1012 + 2 bytes, or one whose certificate-data
\* offset 1012 + 2 + auth_data_size + 6 exceeds its length, ends extraction
\* with the reported error MalformedQuote, and no index outside the quote is
\* ever read.
C1_MalformedQuoteReported ==
    /\ reads \subseteq 0..(quote.len - 1)
    /\ (Ended /\ (\/ quote.len < 1012 + 2
                  \/ 1012 + 2 + AuthDataSize + 6 > quote.len))
          => outcome = "MalformedQuote"

\* the indices of the entries with the FMSPC OID
FmspcEntries == {k \in 1..Len(extEntries) : extEntries[k].oid = FMSPC_OID}

\* the first of them
FirstFmspc == CHOOSE k \in FmspcEntries : \A m \in FmspcEntries : k <= m

\* the entries before the k-th are SEQUENCEs that start with an OID
DecodableBefore(k) == \A m \in 1..(k - 1) : extEntries[m].oid # <<>>

\* C2: when the scan reaches the end of the buffer without an entry whose
\* OID is the FMSPC identifier, extraction reports FmspcNotFound and returns
\* no (zero-filled) FMSPC.
C2_NotFoundReported ==
    (Ended /\ pc = "done" /\ ~matched)
        => (outcome = "FmspcNotFound" /\ ret = <<>>)

\* C3: the issuer Common Name "Intel SGX PCK Platform CA" is classified
\* Platform, "Intel SGX PCK Processor CA" Processor, and every other Common
\* Name ends extraction with the recoverable error UnknownIssuer, never
\* with a panic.
C3_IssuerClassified ==
    /\ (pckCa # "none" /\ pckIssuer = "Intel SGX PCK Platform CA")
          => pckCa = "PLATFORM"
    /\ (pckCa # "none" /\ pckIssuer = "Intel SGX PCK Processor CA")
          => pckCa = "PROCESSOR"
    /\ (Ended /\ pckIssuer \notin {"none", "Intel SGX PCK Platform CA",
                                   "Intel SGX PCK Processor CA"})
          => (outcome = "UnknownIssuer" /\ outcome # "panic")

\* C4: when the FMSPC entry is found and its octet string is not 6 bytes
\* long, extraction reports InvalidFmspcLength; an FMSPC that is returned
\* is exactly 6 bytes (12 hex digits).
C4_InvalidLengthReported ==
    /\ outcome = "returned" => Len(ret[1]) = 2 * 6
    /\ (/\ Ended
        /\ FmspcEntries # {}
        /\ DecodableBefore(FirstFmspc)
        /\ extEntries[FirstFmspc].plain
        /\ Len(extEntries[FirstFmspc].val) # 6)
          => outcome = "InvalidFmspcLength"

\* C5: every run of the pipeline ends either in success with the three
\* fields populated or in failure with one named error kind.
C5_SuccessOrNamedError ==
    Ended =>
        \/ /\ outcome = "returned"
           /\ Len(ret) = 3
           /\ Len(ret[1]) = 2 * 6
           /\ ret[2] \in {"PLATFORM", "PROCESSOR"}
           /\ ret[3] # "none"
        \/ outcome \in ErrorKinds

\* C6: for every quote long enough to hold the size field, the offset is
\* 1012 + 2 + auth_data_size + 2 + 4 with auth_data_size the little-endian
\* u16 at offsets 1012 and 1013, with no wrap-around.
C6_CertDataOffset ==
    (quote.len >= 1012 + 2 /\ pc # "start")
        => /\ certDataOffset = 1012 + 2 + AuthDataSize + 2 + 4
           /\ certDataOffset >= 1012 + 2 + 2 + 4
           /\ certDataOffset <= 1012 + 2 + 65535 + 2 + 4

C6_Witness ==
    /\ pc = "parse_pem"
    /\ quote.b0 = 57 /\ quote.b1 = 48
    /\ certDataOffset = 13365

\* the value of a lowercase hex digit, -1 for any other character
HexDigitValue(c) ==
    CASE c = "0" -> 0 [] c = "1" -> 1 [] c = "2" -> 2 [] c = "3" -> 3
      [] c = "4" -> 4 [] c = "5" -> 5 [] c = "6" -> 6 [] c = "7" -> 7
      [] c = "8" -> 8 [] c = "9" -> 9 [] c = "a" -> 10 [] c = "b" -> 11
      [] c = "c" -> 12 [] c = "d" -> 13 [] c = "e" -> 14 [] c = "f" -> 15
      [] OTHER -> -1

\* str is the lowercase hex rendering of bytes
IsLowerHexOf(str, bytes) ==
    /\ Len(str) = 2 * Len(bytes)
    /\ \A k \in 1..Len(bytes) :
          /\ HexDigitValue(str[2 * k - 1]) >= 0
          /\ HexDigitValue(str[2 * k]) >= 0
          /\ 16 * HexDigitValue(str[2 * k - 1]) + HexDigitValue(str[2 * k])
                = bytes[k]

\* C7: when the SGX extension holds entries with the FMSPC OID, the FMSPC
\* that is returned is the 6-byte value of the first of them, found in as
\* many iterations as its position (no later entry is examined), as 12
\* lowercase hex digits; AA BB CC DD EE FF gives "aabbccddeeff".
C7_FirstFmspcWins ==
    (pc = "done" /\ FmspcEntries # {})
        => /\ Len(extEntries[FirstFmspc].val) = 6
           /\ IsLowerHexOf(ret[1], extEntries[FirstFmspc].val)
           /\ iters = FirstFmspc
           /\ extEntries[FirstFmspc].val = <<170, 187, 204, 221, 238, 255>>
                => ret[1] = <<"a", "a", "b", "b", "c", "c",
                              "d", "d", "e", "e", "f", "f">>

C7_Witness ==
    /\ pc = "done"
    /\ Len(extEntries) = 2
    /\ FmspcEntries = {1, 2}
    /\ extEntries[2].val = <<0, 0, 0, 0, 0, 1>>
    /\ ret[1] = <<"a", "a", "b", "b", "c", "c", "d", "d", "e", "e", "f", "f">>

\* the header of the TLV at the head of buf, and the content length that
\* header claims
HeaderLen(buf) == IF buf[2] < 128 THEN 2 ELSE IF buf[2] = 129 THEN 3 ELSE 4
ContentLen(buf) ==
    IF buf[2] < 128 THEN buf[2]
    ELSE IF buf[2] = 129 THEN buf[3]
    ELSE buf[3] * 256 + buf[4]

\* OID 1.2.840.113741.1.13.1.4 in DER
FmspcOidDer == <<6, 10, 42, 134, 72, 134, 248, 77, 1, 13, 1, 4>>

\* the content of the SEQUENCE at the head of buf starts with the FMSPC OID
HeadIsFmspc(buf) ==
    /\ Len(buf) >= 2 + Len(FmspcOidDer)
    /\ ContentLen(buf) >= Len(FmspcOidDer)
    /\ Len(buf) >= HeaderLen(buf) + ContentLen(buf)
    /\ SubSeq(buf, HeaderLen(buf) + 1, HeaderLen(buf) + Len(FmspcOidDer))
          = FmspcOidDer

\* C8: the walk is a single forward pass.  An iteration advances the cursor
\* by exactly the encoded length of the entry at it (header plus claimed
\* content length), so the remaining buffer is a strictly shorter suffix;
\* the loop is left exactly when the entry's head OID is the FMSPC
\* identifier or when the remaining buffer is empty; and the walk ends.
C8_ForwardWalk ==
    /\ [][(pc = "walk" /\ Len(i) > 0 /\ pc' # "panicked")
            => /\ Len(i') < Len(i)
               /\ Len(i) - Len(i') = HeaderLen(i) + ContentLen(i)
               /\ i' = SubSeq(i, Len(i) - Len(i') + 1, Len(i))
               /\ iters' = iters + 1
               /\ (pc' = "encode") <=> HeadIsFmspc(i)
               /\ (pc' = "walk") <=> ~HeadIsFmspc(i)]_vars
    /\ [][(pc = "walk" /\ Len(i) = 0) => (pc' = "encode" /\ i' = i)]_vars
    /\ [][(pc' = "encode" /\ pc # "encode")
            => (pc = "walk" /\ (Len(i) = 0 \/ HeadIsFmspc(i)))]_vars
    /\ <>Ended

C8_Witness ==
    /\ pc = "walk"
    /\ iters = 1
    /\ Len(extEntries) = 2
    /\ i = extEntries[2].bytes
    /\ HeadIsFmspc(i)

\* the calls of a run that passes every step, in order
ExpectedCalls ==
    (IF elf THEN <<"upload_img">> ELSE <<>>)
    \o <<"upload_input", "create_session", "session.status",
         "create_snark", "snark_session.status">>

Made(name) == \E k \in 1..Len(calls) : calls[k] = name

LastCall == IF calls = <<>> THEN "none" ELSE calls[Len(calls)]

\* C9: the workflow runs (image upload when an image is given, else the
\* default identifier and no upload), input upload, create session, poll,
\* create SNARK, poll, in this order; the SNARK session is created only
\* after SUCCEEDED with a receipt URL was observed, prove returns a result
\* only after the SNARK session was observed SUCCEEDED with an output, and
\* any status other than RUNNING or SUCCEEDED ends the workflow with no
\* later step.
C9_WorkflowOrder ==
    /\ Len(calls) <= Len(ExpectedCalls)
    /\ calls = SubSeq(ExpectedCalls, 1, Len(calls))
    /\ (~elf /\ imageId # "none") => imageId = "DEFAULT_IMAGE_ID_HEX"
    /\ (elf /\ imageId # "none") => (imageId = "computed" /\ Made("upload_img"))
    /\ Made("upload_input") => imageId # "none"
    /\ Made("create_snark")
          => res.stark = [status |-> "SUCCEEDED", payload |-> TRUE]
    /\ bresult = "ok"
          => /\ res.snark = [status |-> "SUCCEEDED", payload |-> TRUE]
             /\ calls = ExpectedCalls
    /\ res.stark.status \notin {"none", "RUNNING", "SUCCEEDED"}
          => (bresult = "panic" /\ LastCall = "session.status")
    /\ res.snark.status \notin {"none", "RUNNING", "SUCCEEDED"}
          => (bresult = "panic" /\ LastCall = "snark_session.status")

C9_Witness ==
    /\ bresult = "ok"
    /\ elf
    /\ calls = ExpectedCalls
    /\ remote = [stark |-> "SUCCEEDED", snark |-> "SUCCEEDED"]

\* a step that polls the named session
Polls(name) == tick' # tick /\ calls'[Len(calls')] = name

\* C10: a session is polled again only while its last observed status is
\* RUNNING, as often as that lasts; once another status was observed it is
\* never polled again; and if the service eventually reports a status other
\* than RUNNING for the proving session and for the SNARK session, prove
\* eventually ends.
C10_PollUntilNotRunning ==
    /\ [][Polls("session.status")
            => res.stark.status \in {"none", "RUNNING"}]_vars
    /\ [][Polls("snark_session.status")
            => res.snark.status \in {"none", "RUNNING"}]_vars
    /\ [][(Polls("session.status") /\ res'.stark.status = "RUNNING"
              /\ bresult' = "running") => bpc' = "stark_loop"]_vars
    /\ [][(Polls("snark_session.status") /\ res'.snark.status = "RUNNING"
              /\ bresult' = "running") => bpc' = "snark_loop"]_vars
    /\ (/\ <>[](remote.stark # "RUNNING")
        /\ <>[](remote.snark # "RUNNING"))
          => <>(bresult # "running")

C10_Witness ==
    /\ bpc = "snark_loop"
    /\ res.stark.status = "SUCCEEDED"
    /\ res.snark.status = "RUNNING"
    /\ remote.snark = "TIMED_OUT"

=============================================================================
